---- MODULE Spec2Model ----
(***************************************************************************)
(* MassWappalyzer (src/masswappalyzer.py): MassWappalyzer.run() dispatches *)
(* WappalyzerWrapper.analyze over the target list through                  *)
(* perform(asynch=True, workers=N), i.e. ThreadPoolExecutor.map, then      *)
(* aggregates the raw results into rows (ensure_keys) and exports them.    *)
(*                                                                         *)
(* Strings the code takes apart (technology names, column keys) are        *)
(* sequences of one-character strings; a cell value is a sequence of       *)
(* lines, each line a pair <<label, text>>, so that the empty string ""    *)
(* is the empty sequence.                                                  *)
(***************************************************************************)
EXTENDS Integers, Sequences, FiniteSets, TLC

VARIABLES
    urls,            \* self.urls: the target list
    workers,         \* self.asynch_workers, max_workers of the pool
    python,          \* self.analyzer.python: library backend (TRUE) or CLI (FALSE)
    pc,              \* position of the main thread
    nsub,            \* number of futures submitted by Executor.map
    fut,             \* state of each submitted future
    res,             \* value returned by analyze for each finished future
    exceeded,        \* calls in flight that have run for longer than TIMEOUT
    results,         \* self.analyzer.results (appended to by the workers)
    returned,        \* the list perform() is building from the result iterator
    nxt,             \* index of the next future the result iterator waits for
    exc,             \* exception propagating out of perform(), if any
    raw_results,     \* binding of run()'s local raw_results
    interrupted,     \* a KeyboardInterrupt has been delivered to the main thread
    doneAtInt,       \* futures that had completed when the interrupt arrived
    all_apps,        \* run()'s all_apps: a set while scanning, then its sorted list
    idx,             \* index of the list iterator of the current for loop
    excel_structure, \* run()'s excel_structure: the rows built so far
    printed,         \* the RuntimeErrors printed at line 360
    exitcode,        \* process exit status once run() has ended
    written,         \* format of the output file written, "" when none
    fpc,             \* position of a function-level specification, "" in a run
    arg,             \* the arguments of the function under study
    out              \* what the function has computed so far

vars == <<urls, workers, python, pc, nsub, fut, res, exceeded, results, returned,
          nxt, exc, raw_results, interrupted, doneAtInt, all_apps, idx,
          excel_structure, printed, exitcode, written, fpc, arg, out>>

----------------------------------------------------------------------------
(* Bounds of the model *)

MaxTargets == 2
MaxWorkers == 2

(* The targets of the input file: one without a scheme, one with. *)
Targets == {"a.com", "https://b.com"}

(* The input files of the model: the same target on every line, or the two
   targets in turn. *)
InputFiles ==
    UNION { { [i \in 1..n |-> "a.com"],
              [i \in 1..n |-> IF i % 2 = 1 THEN "a.com" ELSE "https://b.com"] }
            : n \in 0..MaxTargets }

----------------------------------------------------------------------------
(* Characters and strings *)

Digits == {"0", "1", "2", "3", "4", "5", "6", "7", "8", "9"}

Letters ==
    {"a", "b", "c", "d", "e", "f", "g", "h", "i", "j", "k", "l", "m",
     "n", "o", "p", "q", "r", "s", "t", "u", "v", "w", "x", "y", "z",
     "A", "B", "C", "D", "E", "F", "G", "H", "I", "J", "K", "L", "M",
     "N", "O", "P", "Q", "R", "S", "T", "U", "V", "W", "X", "Y", "Z"}

(* The characters a column key can hold, in code-point order. *)
AsciiOrder ==
    <<"0", "1", "2", "3", "4", "5", "6", "7", "8", "9",
      "A", "B", "C", "D", "E", "F", "G", "H", "I", "J", "K", "L", "M",
      "N", "O", "P", "Q", "R", "S", "T", "U", "V", "W", "X", "Y", "Z",
      "_",
      "a", "b", "c", "d", "e", "f", "g", "h", "i", "j", "k", "l", "m",
      "n", "o", "p", "q", "r", "s", "t", "u", "v", "w", "x", "y", "z">>

Ord(c) == CHOOSE i \in 1..Len(AsciiOrder) : AsciiOrder[i] = c

(* Python's str comparison: lexicographic by code point. *)
RECURSIVE StrLess(_, _)
StrLess(s, t) ==
    IF t = <<>> THEN FALSE
    ELSE IF s = <<>> THEN TRUE
    ELSE IF Head(s) = Head(t) THEN StrLess(Tail(s), Tail(t))
    ELSE Ord(Head(s)) < Ord(Head(t))

(* sorted(all_apps) at line 330 *)
RECURSIVE sorted(_)
sorted(S) ==
    IF S = {} THEN <<>>
    ELSE LET m == CHOOSE x \in S : \A y \in S \ {x} : StrLess(x, y)
         IN  <<m>> \o sorted(S \ {m})

Range(s) == {s[i] : i \in 1..Len(s)}

(* re.sub('^[^a-zA-Z_]+', '', s): drop the leading run of characters that are
   neither a letter nor an underscore *)
RECURSIVE StripLeading(_)
StripLeading(s) ==
    IF s = <<>> THEN s
    ELSE IF Head(s) \in Letters \cup {"_"} THEN s
    ELSE StripLeading(Tail(s))

(* str.isnumeric(): non-empty and every character numeric *)
isnumeric(s) == s # <<>> /\ \A i \in 1..Len(s) : s[i] \in Digits

IsKeyChar(c) == c \in Digits \cup Letters \cup {"_"}

clean(s) ==
    LET s1 == SelectSeq(s, IsKeyChar)
        s2 == StripLeading(s1)
    IN  IF isnumeric(s2) THEN <<"_">> \o s2 ELSE s2

----------------------------------------------------------------------------
(* ensure_keys: collections.namedtuple rejects a field name that is not an
   identifier, is a keyword, or starts with an underscore (ValueError). *)

kwlist ==
    {<<"F", "a", "l", "s", "e">>,
     <<"N", "o", "n", "e">>,
     <<"T", "r", "u", "e">>,
     <<"a", "n", "d">>,
     <<"a", "s">>,
     <<"a", "s", "s", "e", "r", "t">>,
     <<"a", "s", "y", "n", "c">>,
     <<"a", "w", "a", "i", "t">>,
     <<"b", "r", "e", "a", "k">>,
     <<"c", "l", "a", "s", "s">>,
     <<"c", "o", "n", "t", "i", "n", "u", "e">>,
     <<"d", "e", "f">>,
     <<"d", "e", "l">>,
     <<"e", "l", "i", "f">>,
     <<"e", "l", "s", "e">>,
     <<"e", "x", "c", "e", "p", "t">>,
     <<"f", "i", "n", "a", "l", "l", "y">>,
     <<"f", "o", "r">>,
     <<"f", "r", "o", "m">>,
     <<"g", "l", "o", "b", "a", "l">>,
     <<"i", "f">>,
     <<"i", "m", "p", "o", "r", "t">>,
     <<"i", "n">>,
     <<"i", "s">>,
     <<"l", "a", "m", "b", "d", "a">>,
     <<"n", "o", "n", "l", "o", "c", "a", "l">>,
     <<"n", "o", "t">>,
     <<"o", "r">>,
     <<"p", "a", "s", "s">>,
     <<"r", "a", "i", "s", "e">>,
     <<"r", "e", "t", "u", "r", "n">>,
     <<"t", "r", "y">>,
     <<"w", "h", "i", "l", "e">>,
     <<"w", "i", "t", "h">>,
     <<"y", "i", "e", "l", "d">>}

(* str.isidentifier() on the characters a key can hold *)
isidentifier(s) ==
    /\ s # <<>>
    /\ Head(s) \in Letters \cup {"_"}
    /\ \A i \in 1..Len(s) : IsKeyChar(s[i])

ValidField(s) == isidentifier(s) /\ s \notin kwlist /\ Head(s) # "_"

(* The default value of ensure_keys, the empty string *)
EmptyString == <<>>

(* the field names of the row type: list(set(list(dictionnary.keys()) + list(keys))) *)
RowFields(dictionnary, keys) == DOMAIN dictionnary \cup Range(keys)

(* namedtuple('row', ...) raises ValueError *)
ensure_keys_raises(dictionnary, keys) ==
    \E k \in RowFields(dictionnary, keys) : ~ValidField(k)

(* the row built from dictionnary, as a dict: every field, defaulted to "" when absent *)
ensure_keys(dictionnary, keys) ==
    [k \in RowFields(dictionnary, keys) |->
        IF k \in DOMAIN dictionnary THEN dictionnary[k] ELSE EmptyString]

----------------------------------------------------------------------------
(* The external analyzer: what one call can report.  The technology names are
   the analyzer's, the model draws each call's answer from AdapterFindings. *)

jQuery == <<"j", "Q", "u", "e", "r", "y">>
React == <<"R", "e", "a", "c", "t">>
hyperscript == <<"_", "h", "y", "p", "e", "r", "s", "c", "r", "i", "p", "t">>

AdapterFindings ==
    { <<>>,
      <<[name |-> jQuery, version |-> "3.5.1"]>>,
      <<[name |-> React, version |-> ""]>>,
      <<[name |-> hyperscript, version |-> ""]>> }

(* urlparse(host)[0] == "": the target carries no scheme *)
NoScheme(host) == host = "a.com"

(* analyze, lines 218-222: 'http://' + host when the target has no scheme *)
FormatHost(host) == IF NoScheme(host) THEN "http://a.com" ELSE host

(* The dict analyze returns on success (lines 237-245, 262); tgt records the
   position of the target in self.urls the call was made for. *)
ResultDict(i, host, apps) ==
    [kind |-> "dict", tgt |-> i,
     urls |-> <<[url |-> FormatHost(host), status |-> "OK"]>>,
     applications |-> apps, cause |-> ""]

(* The RuntimeError analyze returns (lines 248, 264, 267) *)
ResultError(i, why) ==
    [kind |-> "RuntimeError", tgt |-> i, urls |-> <<>>,
     applications |-> <<>>, cause |-> why]

----------------------------------------------------------------------------
(* Aggregation helpers of run() *)

KeyUrls == <<"U", "r", "l", "s">>
KeyLastUrl == <<"L", "a", "s", "t", "_", "U", "r", "l">>

(* a rendering that announces the detection: "Detected", or
   "Detected, version X" when the application carries a version *)
RenderDetected(app) ==
    IF app.version = "" THEN << <<"Detected">> >>
    ELSE << <<"Detected, version", app.version>> >>

(* lines 347-353: one "Key: value" line per truthy field of the application
   other than name, icon and confidence, joined by newlines *)
RenderApp(app) ==
    IF app.version = "" THEN EmptyString ELSE << <<"Version", app.version>> >>

(* lines 342-355: website_dict.update({clean(app['name']): ...}) for each
   application in order, a later one overwriting an earlier one *)
RECURSIVE UpdateApps(_, _)
UpdateApps(d, apps) ==
    IF apps = <<>> THEN d
    ELSE UpdateApps((clean(Head(apps).name) :> RenderApp(Head(apps))) @@ d,
                    Tail(apps))

(* lines 338-355 *)
website_dict(item) ==
    LET u == item.urls
        base == (KeyUrls :> [i \in 1..Len(u) |-> <<u[i].url, u[i].status>>])
                @@ (KeyLastUrl :> << <<u[Len(u)].url>> >>)
    IN  UpdateApps(base, item.applications)

(* lines 324-327: the keys one item adds to all_apps *)
AppKeys(item) ==
    IF item.kind = "dict"
    THEN {clean(item.applications[i].name) : i \in 1..Len(item.applications)}
    ELSE {}

Formats == {"xlsx", "csv", "json"}

----------------------------------------------------------------------------
(* State of the pool *)

Submitted == 1..nsub
Pending == {i \in Submitted : fut[i] = "pending"}
Running == {i \in Submitted : fut[i] = "running"}
Completed == {i \in Submitted : fut[i] = "finished"}
(* the calls to analyze that have begun *)
Started == {i \in Submitted : fut[i] \in {"running", "finished", "raised"}}

(* a pool that takes one work item more than it has threads *)
WorkerFreeOffByOne == Cardinality(Running) <= workers

(* ThreadPoolExecutor(max_workers=workers): at most `workers` threads, each
   running one work item at a time *)
WorkerFree == Cardinality(Running) < workers

(* the work queue is FIFO; a cancelled item is dropped when dequeued *)
NextInQueue(i) == i \in Pending /\ \A j \in Pending : i <= j

(* the list run() reads as raw_results: perform()'s return value, or the very
   list object self.analyzer.results after a KeyboardInterrupt *)
RawResults == IF raw_results = "alias" THEN results ELSE returned

Terminal == {"done", "no_results", "crashed"}

----------------------------------------------------------------------------
Init ==
    /\ urls \in InputFiles
    /\ workers \in 1..MaxWorkers
    /\ python \in BOOLEAN
    /\ pc = "submit"
    /\ nsub = 0
    /\ fut = [i \in 1..Len(urls) |-> "new"]
    /\ res = <<>>
    /\ exceeded = {}
    /\ results = <<>>
    /\ returned = <<>>
    /\ nxt = 1
    /\ exc = ""
    /\ raw_results = "unbound"
    /\ interrupted = FALSE
    /\ doneAtInt = {}
    /\ all_apps = {}
    /\ idx = 1
    /\ excel_structure = <<>>
    /\ printed = <<>>
    /\ exitcode = -1
    /\ written = ""
    /\ fpc = ""
    /\ arg = <<>>
    /\ out = <<>>

mainVars == <<pc, nsub, returned, nxt, exc, raw_results, interrupted, doneAtInt,
              all_apps, idx, excel_structure, printed, exitcode, written>>
aggVars == <<all_apps, idx, excel_structure, printed, exitcode, written>>
(* what a run never changes: its inputs, and the variables of the
   function-level specifications *)
inputVars == <<urls, workers, python, fpc, arg, out>>

----------------------------------------------------------------------------
(* perform(): Executor.map submits every element, then the result iterator
   yields the results in submission order. *)

Submit ==
    /\ pc = "submit"
    /\ nsub < Len(urls)
    /\ nsub' = nsub + 1
    /\ fut' = [fut EXCEPT ![nsub + 1] = "pending"]
    /\ UNCHANGED <<inputVars, pc, res, exceeded, results, returned, nxt, exc,
                   raw_results, interrupted, doneAtInt, aggVars>>

MapReturns ==
    /\ pc = "submit"
    /\ nsub = Len(urls)
    /\ pc' = "collect"
    /\ UNCHANGED <<inputVars, nsub, fut, res, exceeded, results, returned, nxt,
                   exc, raw_results, interrupted, doneAtInt, aggVars>>

(* list(...map(func, elements)): the next result, in submission order *)
Collect ==
    /\ pc = "collect"
    /\ nxt <= Len(urls)
    /\ fut[nxt] = "finished"
    /\ returned' = Append(returned, res[nxt])
    /\ nxt' = nxt + 1
    /\ UNCHANGED <<inputVars, pc, nsub, fut, res, exceeded, results, exc,
                   raw_results, interrupted, doneAtInt, aggVars>>

(* future.result() re-raises what analyze raised *)
CollectRaises ==
    /\ pc = "collect"
    /\ nxt <= Len(urls)
    /\ fut[nxt] = "raised"
    /\ exc' = "Exception"
    /\ pc' = "cancel"
    /\ UNCHANGED <<inputVars, nsub, fut, res, exceeded, results, returned, nxt,
                   raw_results, interrupted, doneAtInt, aggVars>>

(* perform() handing back the list the workers append to *)
PerformResultShared == "alias"

(* the value run() binds to raw_results at line 308: the list perform() built *)
PerformResult == "returned"

PerformReturns ==
    /\ pc = "collect"
    /\ nxt > Len(urls)
    /\ raw_results' = PerformResult
    /\ pc' = "discover"
    /\ all_apps' = {}
    /\ idx' = 1
    /\ UNCHANGED <<inputVars, nsub, fut, res, exceeded, results, returned, nxt,
                   exc, interrupted, doneAtInt, excel_structure, printed,
                   exitcode, written>>

(* Ctrl-C while perform() is running.  While map is still submitting, the
   exception leaves perform() at once and the futures already queued stay
   queued; while the result iterator waits, its finally clause cancels the
   futures that are still pending. *)
Interrupt ==
    /\ pc \in {"submit", "collect"}
    /\ interrupted' = TRUE
    /\ doneAtInt' = Completed
    /\ exc' = "KeyboardInterrupt"
    /\ pc' = IF pc = "submit" THEN "handler" ELSE "cancel"
    /\ UNCHANGED <<inputVars, nsub, fut, res, exceeded, results, returned, nxt,
                   raw_results, aggVars>>

(* result_iterator's finally: for future in fs: future.cancel() *)
Cancel(i) ==
    /\ pc = "cancel"
    /\ i \in Pending
    /\ fut' = [fut EXCEPT ![i] = "cancelled"]
    /\ UNCHANGED <<inputVars, mainVars, res, exceeded, results>>

CancelDone ==
    /\ pc = "cancel"
    /\ Pending = {}
    /\ pc' = "handler"
    /\ UNCHANGED <<inputVars, nsub, fut, res, exceeded, results, returned, nxt,
                   exc, raw_results, interrupted, doneAtInt, aggVars>>

----------------------------------------------------------------------------
(* The worker threads: WappalyzerWrapper.analyze *)

Start(i) ==
    /\ NextInQueue(i)
    /\ WorkerFree
    /\ fut' = [fut EXCEPT ![i] = "running"]
    /\ UNCHANGED <<inputVars, mainVars, res, exceeded, results>>

(* the call for target i has now been running for more than TIMEOUT seconds *)
Exceed(i) ==
    /\ i \in Running
    /\ i \notin exceeded
    /\ exceeded' = exceeded \cup {i}
    /\ UNCHANGED <<inputVars, mainVars, fut, res, results>>

(* subprocess.run(timeout=self.TIMEOUT) is only on the CLI branch: there a
   call that has exceeded TIMEOUT can only end in TimeoutExpired *)
CanReturn(i) == i \in Running /\ (python \/ i \notin exceeded)

(* lines 237-245 / 262, then 271-272 *)
AnalyzeReturnsDict(i, apps) ==
    /\ CanReturn(i)
    /\ LET result == ResultDict(i, urls[i], apps)
       IN  /\ results' = Append(results, result)
           /\ res' = (i :> result) @@ res
    /\ fut' = [fut EXCEPT ![i] = "finished"]
    /\ exceeded' = exceeded \ {i}
    /\ UNCHANGED <<inputVars, mainVars>>

(* line 248 (any Exception of the library) or line 264 (returncode # 0) *)
AnalyzeReturnsError(i) ==
    /\ CanReturn(i)
    /\ res' = (i :> ResultError(i, IF python THEN "exception" ELSE "failed")) @@ res
    /\ fut' = [fut EXCEPT ![i] = "finished"]
    /\ exceeded' = exceeded \ {i}
    /\ UNCHANGED <<inputVars, mainVars, results>>

(* lines 266-267: subprocess.TimeoutExpired *)
AnalyzeTimeout(i) ==
    /\ ~python
    /\ i \in Running
    /\ i \in exceeded
    /\ res' = (i :> ResultError(i, "timeout")) @@ res
    /\ fut' = [fut EXCEPT ![i] = "finished"]
    /\ exceeded' = exceeded \ {i}
    /\ UNCHANGED <<inputVars, mainVars, results>>

(* lines 256, 262: subprocess.run raises FileNotFoundError (no such
   executable) or json.loads raises JSONDecodeError; only TimeoutExpired is
   caught on this branch *)
AnalyzeRaises(i) ==
    /\ ~python
    /\ CanReturn(i)
    /\ fut' = [fut EXCEPT ![i] = "raised"]
    /\ UNCHANGED <<inputVars, mainVars, res, exceeded, results>>

----------------------------------------------------------------------------
(* MassWappalyzer.run(): except / finally *)

(* lines 315-317 *)
ExceptKeyboardInterrupt ==
    /\ pc = "handler"
    /\ exc = "KeyboardInterrupt"
    /\ raw_results' = "alias"
    /\ pc' = "discover"
    /\ all_apps' = {}
    /\ idx' = 1
    /\ UNCHANGED <<inputVars, nsub, fut, res, exceeded, results, returned, nxt,
                   exc, interrupted, doneAtInt, excel_structure, printed,
                   exitcode, written>>

(* any other exception: no handler, the finally clause runs with raw_results
   never assigned and line 324 raises UnboundLocalError *)
FinallyUnbound ==
    /\ pc = "handler"
    /\ exc = "Exception"
    /\ pc' = "crashed"
    /\ exitcode' = 1
    /\ UNCHANGED <<inputVars, nsub, fut, res, exceeded, results, returned, nxt,
                   exc, raw_results, interrupted, doneAtInt, all_apps, idx,
                   excel_structure, printed, written>>

(* lines 324-327: one iteration of the first for loop *)
Discover ==
    /\ pc = "discover"
    /\ idx <= Len(RawResults)
    /\ all_apps' = all_apps \cup AppKeys(RawResults[idx])
    /\ idx' = idx + 1
    /\ UNCHANGED <<inputVars, pc, nsub, fut, res, exceeded, results, returned,
                   nxt, exc, raw_results, interrupted, doneAtInt,
                   excel_structure, printed, exitcode, written>>

(* lines 329-333: the loop is exhausted *)
DiscoverDone ==
    /\ pc = "discover"
    /\ idx > Len(RawResults)
    /\ all_apps' = sorted(all_apps)
    /\ excel_structure' = <<>>
    /\ idx' = 1
    /\ pc' = "build"
    /\ UNCHANGED <<inputVars, nsub, fut, res, exceeded, results, returned, nxt,
                   exc, raw_results, interrupted, doneAtInt, printed, exitcode,
                   written>>

(* lines 335-360: one iteration of the second for loop *)
Build ==
    /\ pc = "build"
    /\ idx <= Len(RawResults)
    /\ LET item == RawResults[idx]
       IN  IF item.kind = "dict"
           THEN IF ensure_keys_raises(website_dict(item), all_apps)
                THEN /\ pc' = "crashed"
                     /\ exitcode' = 1
                     /\ UNCHANGED <<idx, excel_structure, printed>>
                ELSE /\ excel_structure' =
                            Append(excel_structure,
                                   ensure_keys(website_dict(item), all_apps))
                     /\ idx' = idx + 1
                     /\ UNCHANGED <<pc, exitcode, printed>>
           ELSE /\ printed' = Append(printed, item)
                /\ idx' = idx + 1
                /\ UNCHANGED <<pc, exitcode, excel_structure>>
    /\ UNCHANGED <<inputVars, nsub, fut, res, exceeded, results, returned, nxt,
                   exc, raw_results, interrupted, doneAtInt, all_apps, written>>

(* lines 362-364 *)
BuildDone ==
    /\ pc = "build"
    /\ idx > Len(RawResults)
    /\ IF excel_structure = <<>>
       THEN pc' = "no_results" /\ exitcode' = 1
       ELSE pc' = "export" /\ UNCHANGED exitcode
    /\ UNCHANGED <<inputVars, nsub, fut, res, exceeded, results, returned, nxt,
                   exc, raw_results, interrupted, doneAtInt, all_apps, idx,
                   excel_structure, printed, written>>

(* lines 366-387 *)
Export(format) ==
    /\ pc = "export"
    /\ written' = format
    /\ pc' = "done"
    /\ exitcode' = 0
    /\ UNCHANGED <<inputVars, nsub, fut, res, exceeded, results, returned, nxt,
                   exc, raw_results, interrupted, doneAtInt, all_apps, idx,
                   excel_structure, printed>>

----------------------------------------------------------------------------
Next ==
    \/ Submit
    \/ MapReturns
    \/ Collect
    \/ CollectRaises
    \/ PerformReturns
    \/ Interrupt
    \/ \E i \in 1..Len(urls) : Cancel(i)
    \/ CancelDone
    \/ \E i \in 1..Len(urls) : Start(i)
    \/ \E i \in 1..Len(urls) : Exceed(i)
    \/ \E i \in 1..Len(urls), apps \in AdapterFindings : AnalyzeReturnsDict(i, apps)
    \/ \E i \in 1..Len(urls) : AnalyzeReturnsError(i)
    \/ \E i \in 1..Len(urls) : AnalyzeTimeout(i)
    \/ \E i \in 1..Len(urls) : AnalyzeRaises(i)
    \/ ExceptKeyboardInterrupt
    \/ FinallyUnbound
    \/ Discover
    \/ DiscoverDone
    \/ Build
    \/ BuildDone
    \/ \E format \in Formats : Export(format)

Spec == Init /\ [][Next]_vars

----------------------------------------------------------------------------
(* Function-level specifications.  Each draws the arguments of one function
   from a bounded set and applies the function; no run is in progress. *)

NoRun ==
    /\ urls = <<>>
    /\ workers = 1
    /\ python = FALSE
    /\ pc = "idle"
    /\ nsub = 0
    /\ fut = <<>>
    /\ res = <<>>
    /\ exceeded = {}
    /\ results = <<>>
    /\ returned = <<>>
    /\ nxt = 1
    /\ exc = ""
    /\ raw_results = "unbound"
    /\ interrupted = FALSE
    /\ doneAtInt = {}
    /\ all_apps = {}
    /\ idx = 1
    /\ excel_structure = <<>>
    /\ printed = <<>>
    /\ exitcode = -1
    /\ written = ""

runVars == <<urls, workers, python, pc, nsub, fut, res, exceeded, results,
             returned, nxt, exc, raw_results, interrupted, doneAtInt, all_apps,
             idx, excel_structure, printed, exitcode, written>>

(* clean(), then the row of a site whose only technology has that name *)

MaxNameLen == 3

(* a letter of each case, a digit, the underscore and a character the first
   substitution of clean() removes *)
NameChars == {"a", "R", "1", "_", "-"}

Names == UNION {[1..n -> NameChars] : n \in 0..MaxNameLen}

InitClean ==
    /\ NoRun
    /\ fpc = "name"
    /\ arg \in Names
    /\ out = [key |-> <<>>, row |-> "none"]

(* line 347: clean(app['name']) *)
CleanName ==
    /\ fpc = "name"
    /\ out' = [out EXCEPT !.key = clean(arg)]
    /\ fpc' = "key"
    /\ UNCHANGED <<runVars, arg>>

(* line 357: ensure_keys(website_dict, all_apps) for the site's row *)
MakeRow ==
    /\ fpc = "key"
    /\ LET item == ResultDict(1, "a.com", <<[name |-> arg, version |-> ""]>>)
           keys == sorted(AppKeys(item))
       IN  out' = [out EXCEPT !.row =
                      IF ensure_keys_raises(website_dict(item), keys)
                      THEN "ValueError" ELSE "row"]
    /\ fpc' = "done"
    /\ UNCHANGED <<runVars, arg>>

NextClean == CleanName \/ MakeRow

SpecClean == InitClean /\ [][NextClean]_vars

(* ensure_keys() and the order of the fields of the row it returns *)

(* list(set(...)) at line 24: a set of str is iterated in hash order, which
   changes from process to process and with the order of insertion, so that
   any order of the fields is possible *)
FieldOrders(dictionnary, keys) ==
    LET S == RowFields(dictionnary, keys)
    IN  {f \in [1..Cardinality(S) -> S] : \A k \in S : \E i \in DOMAIN f : f[i] = k}

(* the technologies the sites of the function-level run report *)
RowApps ==
    { <<>>,
      <<[name |-> jQuery, version |-> "3.5.1"]>>,
      <<[name |-> React, version |-> ""]>>,
      <<[name |-> React, version |-> ""], [name |-> jQuery, version |-> "3.5.1"]>> }

InitFields ==
    /\ NoRun
    /\ fpc = "item"
    /\ \E apps \in RowApps, seen \in SUBSET {jQuery, React} :
          arg = [item |-> ResultDict(1, "a.com", apps),
                 keys |-> sorted(AppKeys(ResultDict(1, "a.com", apps)) \cup seen)]
    /\ out = [dict |-> <<>>, fields |-> <<>>]

(* lines 338-355 *)
MakeDict ==
    /\ fpc = "item"
    /\ out' = [out EXCEPT !.dict = website_dict(arg.item)]
    /\ fpc' = "dict"
    /\ UNCHANGED <<runVars, arg>>

(* line 357: the fields of ensure_keys(website_dict, all_apps), in order *)
EnsureKeysFields ==
    /\ fpc = "dict"
    /\ ~ensure_keys_raises(out.dict, arg.keys)
    /\ \E f \in FieldOrders(out.dict, arg.keys) :
          out' = [out EXCEPT !.fields = f]
    /\ fpc' = "row"
    /\ UNCHANGED <<runVars, arg>>

NextFields == MakeDict \/ EnsureKeysFields

SpecFields == InitFields /\ [][NextFields]_vars

----------------------------------------------------------------------------
(* Aggregation on its own: run() from line 320 on, started in the states
   perform() can return in when no Ctrl-C arrived, with analyzer answers that
   hold several technologies, technologies whose names clean() maps to one
   key, and technologies named like the metadata columns. *)

jDashQuery == <<"j", "-", "Q", "u", "e", "r", "y">>
reactDom == <<"r", "e", "a", "c", "t", "-", "d", "o", "m">>
hyperDashScript == <<"_", "h", "y", "p", "e", "r", "-", "s", "c", "r", "i", "p", "t">>

AnalyzerAnswers ==
    { <<>>,
      <<[name |-> jQuery, version |-> "3.5.1"]>>,
      <<[name |-> React, version |-> ""]>>,
      <<[name |-> reactDom, version |-> ""]>>,
      <<[name |-> React, version |-> ""], [name |-> reactDom, version |-> "16.0"]>>,
      <<[name |-> jQuery, version |-> "3.5.1"], [name |-> jDashQuery, version |-> ""]>>,
      <<[name |-> jDashQuery, version |-> ""], [name |-> jQuery, version |-> "3.5.1"]>>,
      <<[name |-> KeyUrls, version |-> "1.0"]>>,
      <<[name |-> KeyLastUrl, version |-> ""]>>,
      <<[name |-> hyperscript, version |-> ""],
        [name |-> hyperDashScript, version |-> "0.9"]>> }

(* what the call for target i can have returned *)
AnalyzeResults(i, host) ==
    {ResultDict(i, host, apps) : apps \in AnalyzerAnswers}
        \cup {ResultError(i, "failed")}

IsDict(item) == item.kind = "dict"

InitAggregate ==
    /\ urls \in InputFiles
    /\ workers = 1
    /\ python = FALSE
    /\ pc = "discover"
    /\ nsub = Len(urls)
    /\ fut = [i \in 1..Len(urls) |-> "finished"]
    /\ res \in {r \in [1..Len(urls) -> UNION {AnalyzeResults(i, urls[i]) : i \in 1..Len(urls)}] :
                    \A i \in 1..Len(urls) : r[i] \in AnalyzeResults(i, urls[i])}
    /\ exceeded = {}
    /\ results = SelectSeq(res, IsDict)
    /\ returned = res
    /\ nxt = Len(urls) + 1
    /\ exc = ""
    /\ raw_results = PerformResult
    /\ interrupted = FALSE
    /\ doneAtInt = {}
    /\ all_apps = {}
    /\ idx = 1
    /\ excel_structure = <<>>
    /\ printed = <<>>
    /\ exitcode = -1
    /\ written = ""
    /\ fpc = ""
    /\ arg = <<>>
    /\ out = <<>>

(* the successful items the second loop has gone through: the k-th row of
   excel_structure is built from the k-th of them *)
Processed == SelectSeq(SubSeq(RawResults, 1, idx - 1), IsDict)

(* application j is the last one of apps that update() writes at its key *)
LastForKey(apps, j) ==
    \A j2 \in (j + 1)..Len(apps) : clean(apps[j2].name) # clean(apps[j].name)

NextAggregate ==
    \/ Discover
    \/ DiscoverDone
    \/ Build
    \/ BuildDone
    \/ \E format \in Formats : Export(format)

SpecAggregate == InitAggregate /\ [][NextAggregate]_vars

----------------------------------------------------------------------------
(* The output file name, MassWappalyzer.__init__ lines 287-295 *)

MaxFileLen == 5
FileChars == {"c", "s", "v", "C", "."}
FileNames == UNION {[1..n -> FileChars] : n \in 0..MaxFileLen}

(* the characters of an output format *)
FormatChars(format) ==
    CASE format = "csv" -> <<"c", "s", "v">>
      [] format = "json" -> <<"j", "s", "o", "n">>
      [] format = "xlsx" -> <<"x", "l", "s", "x">>

(* str.lower() *)
lower(s) == [i \in 1..Len(s) |-> IF s[i] = "C" THEN "c" ELSE s[i]]

(* s.split('.')[-1]: what follows the last '.', the whole of s without one *)
RECURSIVE LastPart(_)
LastPart(s) ==
    IF s = <<>> THEN s
    ELSE IF \E i \in 1..Len(s) : s[i] = "." THEN LastPart(Tail(s))
    ELSE s

(* lines 288-294; split() never returns an empty list, so line 294 is dead *)
OutputFile(outputfile, outputformat) ==
    IF lower(LastPart(outputfile)) # FormatChars(outputformat)
    THEN outputfile \o <<".">> \o FormatChars(outputformat)
    ELSE outputfile

InitFilename ==
    /\ NoRun
    /\ fpc = "outputfile"
    /\ \E outputfile \in FileNames, outputformat \in Formats :
           arg = [outputfile |-> outputfile, outputformat |-> outputformat]
    /\ out = [outputfile |-> <<>>, again |-> <<>>]

(* MassWappalyzer(urls, outputfile, outputformat=outputformat) *)
SetOutputFile ==
    /\ fpc = "outputfile"
    /\ out' = [out EXCEPT !.outputfile = OutputFile(arg.outputfile, arg.outputformat)]
    /\ fpc' = "named"
    /\ UNCHANGED <<runVars, arg>>

(* a second object constructed with the first one's self.outputfile *)
SetOutputFileAgain ==
    /\ fpc = "named"
    /\ out' = [out EXCEPT !.again = OutputFile(out.outputfile, arg.outputformat)]
    /\ fpc' = "renamed"
    /\ UNCHANGED <<runVars, arg>>

NextFilename == SetOutputFile \/ SetOutputFileAgain
SpecFilename == InitFilename /\ [][NextFilename]_vars

----------------------------------------------------------------------------
(* WappalyzerWrapper.__init__, lines 166-213.  arg holds the arguments and
   what the probes of the machine answer; out holds the attributes of self,
   "unset" for an attribute no statement has assigned yet. *)

InitWrapper ==
    /\ NoRun
    /\ fpc = "probe"
    /\ arg \in [wappalyzerpath : BOOLEAN,      \* an explicit path was passed
                which_wappalyzer : BOOLEAN,    \* shutil.which("wappalyzer")
                which_docker : BOOLEAN,        \* shutil.which("docker")
                image : BOOLEAN,               \* 'wappalyzer/cli' in docker image ls
                python : BOOLEAN,              \* the python flag
                importable : BOOLEAN,          \* from Wappalyzer import ... works
                online : BOOLEAN]              \* requests.get(...) works
    /\ out = [wappalyzerpath |-> "unset", wappalyzerargs |-> "unset",
              python |-> "unset", wappalyzer |-> "unset", results |-> "unset",
              printed |-> ""]

(* lines 167-182 *)
ProbePath ==
    /\ fpc = "probe"
    /\ out' = [out EXCEPT !.wappalyzerpath =
                  IF ~arg.wappalyzerpath
                  THEN IF arg.which_wappalyzer
                       THEN "unset"   \* line 170 binds the local name only
                       ELSE IF arg.which_docker
                            THEN IF arg.image THEN "docker" ELSE "None"
                            ELSE "None"
                  ELSE "explicit"]
    /\ fpc' = "select"
    /\ UNCHANGED <<runVars, arg>>

(* lines 184-193 *)
SelectBackend ==
    /\ fpc = "select"
    /\ IF out.wappalyzerpath = "unset"
       THEN /\ fpc' = "AttributeError"
            /\ UNCHANGED out
       ELSE /\ out' = IF out.wappalyzerpath = "None"
                      THEN [out EXCEPT !.wappalyzerargs = "None", !.python = "True"]
                      ELSE IF arg.python
                           THEN [out EXCEPT !.python = "True"]
                           ELSE [out EXCEPT !.wappalyzerargs = "list",
                                            !.python = "False"]
            /\ fpc' = "setup"
    /\ UNCHANGED <<runVars, arg>>

(* lines 197-211 *)
SetupBackend ==
    /\ fpc = "setup"
    /\ IF out.python = "True"
       THEN IF ~arg.importable
            THEN /\ out' = [out EXCEPT !.printed = "Please install python-Wappalyzer"]
                 /\ fpc' = "exit"
            ELSE IF ~arg.online
                 THEN /\ out' = [out EXCEPT !.printed = "Using python-Wappalyzer"]
                      /\ fpc' = "ConnectionError"
                 ELSE /\ out' = [out EXCEPT !.printed = "Using python-Wappalyzer",
                                            !.wappalyzer = "Wappalyzer"]
                      /\ fpc' = "results"
       ELSE /\ out' = [out EXCEPT !.printed = "Using Wappalyzer CLI"]
            /\ fpc' = "results"
    /\ UNCHANGED <<runVars, arg>>

(* line 213 *)
InitResults ==
    /\ fpc = "results"
    /\ out' = [out EXCEPT !.results = "list"]
    /\ fpc' = "constructed"
    /\ UNCHANGED <<runVars, arg>>

NextWrapper == ProbePath \/ SelectBackend \/ SetupBackend \/ InitResults
SpecWrapper == InitWrapper /\ [][NextWrapper]_vars

----------------------------------------------------------------------------
(* Properties *)

Bound == raw_results # "unbound"

(* C1: at any moment of a run of perform(asynch=True, workers=N), N >= 1, the
   number of analyze calls that have started and not yet returned is at most
   N. *)
C1_InFlightBounded == Cardinality(Running) <= workers

(* C1 witness: the pool is full, every worker has a call in flight, and a
   submitted target waits in the queue *)
C1_Witness ==
    /\ Cardinality(Running) = workers
    /\ Pending # {}

(* C2: when no interrupt occurs, the sequence perform() returns has exactly
   one Outcome per target, the Outcome of target i at position i: its length
   is the number of targets, none dropped, none duplicated, whatever order
   the calls completed in. *)
C2_OneOutcomePerTarget ==
    (Bound /\ ~interrupted) =>
        /\ Len(RawResults) = Len(urls)
        /\ \A i \in 1..Len(urls) : RawResults[i] = res[i] /\ RawResults[i].tgt = i

(* C2 witness: perform() has returned for a list that names the same target
   twice, the second call having completed before the first *)
C2_Witness ==
    /\ Bound /\ ~interrupted
    /\ Len(urls) >= 2
    /\ urls[1] = urls[2]
    /\ Len(results) >= 2
    /\ results[1].tgt = 2
    /\ results[2].tgt = 1

(* C3: an error of the adapter for one target (an exception raised inside the
   external-process or library call, unparsable output, a missing executable)
   becomes a Failure Outcome of that target and never unwinds past the
   Orchestrator: no call ends by raising, and run() reaches aggregation with
   raw_results bound. *)
C3_IsolatedFailure ==
    /\ \A i \in Submitted : fut[i] # "raised"
    /\ pc \in {"discover", "build", "export"} \cup Terminal => Bound

(* C4: after an interrupt during dispatch, every Outcome that had completed
   when the interrupt arrived, success or Failure, is in the sequence handed
   to aggregation. *)
C4_CompletedOutcomesKept ==
    (interrupted /\ Bound) =>
        \A i \in doneAtInt : \E k \in 1..Len(RawResults) : RawResults[k] = res[i]

(* C5: rectangularity: in every run, interrupted or not, all rows built by
   aggregation have the same key set, the metadata columns plus every
   discovered column key. *)
C5_Rectangular ==
    \A a \in 1..Len(excel_structure) :
        DOMAIN excel_structure[a] = {KeyUrls, KeyLastUrl} \cup Range(all_apps)

(* C6: in a run that was not interrupted and whose dispatch returned, when
   run() has ended there is exactly one row per successful Outcome, none for
   a Failure, and every Failure has been printed. *)
C6_OneRecordPerSuccess ==
    (pc \in Terminal /\ Bound /\ ~interrupted) =>
        /\ Len(excel_structure) =
               Cardinality({k \in 1..Len(RawResults) : RawResults[k].kind = "dict"})
        /\ Len(printed) =
               Cardinality({k \in 1..Len(RawResults) : RawResults[k].kind = "RuntimeError"})

(* C7: a run that ends with zero rows ends in the "no usable results" state
   (the message of line 363 and exit(1)) and writes no output file. *)
C7_NoUsableResults ==
    (pc \in Terminal /\ excel_structure = <<>>) =>
        /\ pc = "no_results"
        /\ exitcode = 1
        /\ written = ""

(* C8: the Outcome sequence handed to aggregation is in the original
   submission order, whatever order the analyses completed in. *)
C8_SubmissionOrder ==
    Bound =>
        \A a, b \in 1..Len(RawResults) :
            a < b => RawResults[a].tgt < RawResults[b].tgt

(* C9: after an interrupt, no analysis that had not yet started is ever
   started. *)
C9_NoStartAfterInterrupt == [][interrupted => Started' \subseteq Started]_vars

(* C10: every dispatched analysis runs under the per-call timeout, whichever
   backend is in use: a call that has exceeded TIMEOUT ends as a
   Failure(timeout) Outcome. *)
C10_TimeoutYieldsFailure ==
    [][\A i \in Running \cap exceeded :
           fut'[i] = "finished" => res'[i].cause = "timeout"]_vars

(* C11: sanitization is total: for every Finding name clean() returns a
   non-empty valid column key, so that building the record with ensure_keys
   never fails on the key. *)
C11_CleanTotal ==
    /\ fpc \in {"key", "done"} => out.key # <<>> /\ ValidField(out.key)
    /\ fpc = "done" => out.row = "row"

IsColumnKey(k) == k \notin {KeyUrls, KeyLastUrl}

(* C12: column order is deterministic: in a record the column keys appear in
   lexicographic order, the sorted list found by schema discovery. *)
C12_ColumnOrder ==
    fpc = "row" => SelectSeq(out.fields, IsColumnKey) = arg.keys

(* C13, as stated: in every row built, the value at the key of a technology is
   "Detected" when the technology has no version and "Detected, version X"
   when it has version X. *)
C13_DetectedRendering ==
    pc # "discover" =>
        \A k \in DOMAIN excel_structure :
            LET apps == Processed[k].applications
            IN  \A j \in DOMAIN apps :
                    LastForKey(apps, j) =>
                        excel_structure[k][clean(apps[j].name)]
                            = RenderDetected(apps[j])

(* C13, amended: in every row built, the value at clean(name) of a technology
   is the line "Version: X" when the technology has version X and the empty
   string when it has none. *)
C13_KeyValueRendering ==
    pc # "discover" =>
        \A k \in DOMAIN excel_structure :
            LET apps == Processed[k].applications
            IN  \A j \in DOMAIN apps :
                    LastForKey(apps, j) =>
                        excel_structure[k][clean(apps[j].name)]
                            = IF apps[j].version = "" THEN EmptyString
                              ELSE << <<"Version", apps[j].version>> >>

(* a row was built for a target on which jQuery 3.5.1 alone was detected *)
C13_Witness ==
    /\ pc = "export"
    /\ \E k \in DOMAIN excel_structure :
            /\ Processed[k].applications = <<[name |-> jQuery, version |-> "3.5.1"]>>
            /\ excel_structure[k][jQuery] = << <<"Version", "3.5.1">> >>

(* C15: when two technologies of one target have names that clean() maps to
   one key, the table is still produced and the row holds the rendering of the
   later one; React and react-dom keep distinct keys. *)
Collides(apps) ==
    \E j1, j2 \in DOMAIN apps :
        j1 < j2 /\ clean(apps[j1].name) = clean(apps[j2].name)

C15_LastWriteWins ==
    /\ clean(React) # clean(reactDom)
    /\ pc # "discover" =>
            \A k \in DOMAIN excel_structure :
                LET apps == Processed[k].applications
                IN  \A j \in DOMAIN apps :
                        LastForKey(apps, j) =>
                            excel_structure[k][clean(apps[j].name)] = RenderApp(apps[j])
    /\ (\E i \in DOMAIN RawResults :
            IsDict(RawResults[i]) /\ Collides(RawResults[i].applications))
           => pc \notin {"crashed", "no_results"}

(* C18: in every row built, Urls and Last_Url hold the values derived from the
   urls of the item, whatever the names of its technologies. *)
C18_MetadataKept ==
    pc # "discover" =>
        \A k \in DOMAIN excel_structure :
            LET u == Processed[k].urls
            IN  /\ excel_structure[k][KeyUrls]
                        = [i \in 1..Len(u) |-> <<u[i].url, u[i].status>>]
                /\ excel_structure[k][KeyLastUrl] = << <<u[Len(u)].url>> >>

(* C14: the output file name ends with '.' + format; a supplied name that
   already ends so is kept unchanged, any other name gets '.' + format
   appended whole; applying the rule to its result changes nothing. *)
EndsWith(s, t) ==
    Len(s) >= Len(t) /\ SubSeq(s, Len(s) - Len(t) + 1, Len(s)) = t

C14_OutputFileRule ==
    LET ext == <<".">> \o FormatChars(arg.outputformat)
    IN  /\ fpc \in {"named", "renamed"} =>
               /\ EndsWith(out.outputfile, ext)
               /\ out.outputfile = IF EndsWith(arg.outputfile, ext)
                                   THEN arg.outputfile
                                   ELSE arg.outputfile \o ext
        /\ fpc = "renamed" => out.again = out.outputfile

(* C16: constructing the adapter never ends in an uncaught error; it ends
   either with exactly one backend selected (the CLI with its command path and
   arguments set, or the library) or in exit(1) with the cause printed. *)
C16_BackendSelected ==
    /\ fpc \notin {"AttributeError", "ConnectionError"}
    /\ fpc = "constructed" =>
           \/ /\ out.python = "False"
              /\ out.wappalyzerpath \in {"explicit", "docker", "wappalyzer"}
              /\ out.wappalyzerargs = "list"
           \/ /\ out.python = "True"
              /\ out.wappalyzer = "Wappalyzer"
    /\ fpc = "exit" => out.printed = "Please install python-Wappalyzer"

(* C17: once aggregation has started after an interrupt, the list it reads
   no longer changes: no call still running adds a result to it between or
   during the two loops. *)
C17_FrozenOutcomes ==
    [][(interrupted /\ pc \in {"discover", "build"}) => RawResults' = RawResults]_vars
====
